---- MODULE Spec2Model ----
(***************************************************************************)
(* A model of x13a/unlike (src/src/main.go): a sequential command-line     *)
(* program that resolves a Twitter user, collects the IDs of the user's    *)
(* liked tweets that are older than a number of days, and unlikes them.    *)
(*                                                                         *)
(* Conventions.                                                            *)
(*  - A Go pointer to a string or a time is a sequence of length 0 (nil)  *)
(*    or 1 (the value pointed to); gotwi.StringValue / gotwi.TimeValue     *)
(*    dereference it.                                                      *)
(*  - Time is counted in seconds.  time.Time{} (the zero time) is 0 and    *)
(*    the wall clock of the run starts at StartTime.                       *)
(*  - A pagination token is a string naming the page it leads to; the     *)
(*    empty string asks for the first page.                                *)
(*  - An error value is a record of the two properties the program looks   *)
(*    at: whether it is a net.Error with Timeout() true, and whether its   *)
(*    text contains "httpStatusCode=429".                                  *)
(***************************************************************************)
EXTENDS Integers, Sequences, FiniteSets, TLC

VARIABLES
    pc,         \* position of main: "getOpts", "NewTwitter", "LookupUser",
                \* "Collect", "collected", "Delete", "exit"
    argv,       \* the command line as the flag package sees it
    env,        \* the process environment (the two OAuth variables)
    opts,       \* the Opts returned by getOpts
    now,        \* the wall clock, time.Now()
    userID,     \* main's userID
    ids,        \* CollectLikedTweetsID's ids, then main's ids
    token,      \* CollectLikedTweetsID's token
    i,          \* DeleteLikes' i
    j,          \* DeleteLikes' j
    exit,       \* <<>> while running, <<code, where>> once the process ended
    calls,      \* history: every request sent to the API, in order
    pages,      \* history: every page fetched, with the cutoff applied to it
    lastErr,    \* history: the error handed to trySleepOnError in this step
    slept,      \* history: how long the last step slept
    progress,   \* history: the progress lines logged by DeleteLikes, and
                \* main's last line
    unliked     \* history: the delete-like responses that came back without
                \* an error and said the tweet is no longer liked

vars == <<pc, argv, env, opts, now, userID, ids, token, i, j, exit,
          calls, pages, lastErr, slept, progress, unliked>>

----------------------------------------------------------------------------
(* Program constants *)

DefaultDays == 30
DefaultTimeout == 30
RateLimitSleep == 900
ExitSuccess == 0
ExitUsage == 2
ExitFatal == 1
ExitPanic == 2
ProgressEvery == 100
Day == 86400
ZeroTime == 0

Nil == <<>>
Ptr(v) == <<v>>

\* gotwi.StringValue: "" for a nil pointer, the string otherwise
StringValue(p) == IF p = Nil THEN "" ELSE p[1]

\* gotwi.TimeValue: the zero time for a nil pointer, the time otherwise
TimeValue(p) == IF p = Nil THEN ZeroTime ELSE p[1]

\* (a comparison that also holds at the same instant)
AfterOrEqual(t, u) == t >= u

\* time.Time.After: strictly later
After(t, u) == t > u

\* time.Time.AddDate(0, 0, days), in UTC
AddDate(t, days) == t + days * Day

----------------------------------------------------------------------------
(* Bounds and input domains *)

\* the tweets of a listing, its pages, and the transient errors of a run
MaxTweets == 3
MaxPages == 2
MaxRetries == 1

StartTime == 40 * Day

NoError == Nil
Errors == [timeout : BOOLEAN, has429 : BOOLEAN]

Usernames == {"", "bob"}
Secrets == {"", "s"}
UserIDs == {Nil, Ptr(""), Ptr("u1")}

\* what flag.Parse does with the command line: "ok" (parsed), "help" (-h:
\* usage is printed and the process exits 0), "error" (exit 2)
ParseOutcomes == {"ok", "help", "error"}

\* command lines: -V, -u, -d and -t over the given names, days and timeouts
Argvs(names, days, timeouts) ==
    [parse : ParseOutcomes, V : BOOLEAN, u : names, d : days, t : timeouts]
Envs == [token : Secrets, secret : Secrets]

\* The tweets a page of the listing can hold.  The server gives every liked
\* tweet its own ID, written here after its place in the listing; what
\* varies is when the tweet was created and whether the ID is there at all.
OldTweet == [createdAt |-> Ptr(StartTime - DefaultDays * Day), hasID |-> TRUE]
NewTweet == [createdAt |-> Ptr(StartTime + DefaultTimeout), hasID |-> TRUE]
NoIDTweet == [createdAt |-> Nil, hasID |-> FALSE]

TweetKinds == {OldTweet, NewTweet, NoIDTweet}

\* a wider choice, for the runs that stop when the collection returns
NoTimeTweet == [createdAt |-> Nil, hasID |-> TRUE]
NewNoIDTweet == [createdAt |-> Ptr(StartTime + DefaultTimeout), hasID |-> FALSE]

AllTweetKinds == TweetKinds \cup {NoTimeTweet, NewNoIDTweet}

SeqsUpTo(S, n) == UNION { [1..m -> S] : m \in 0..n }

TweetIDAt(p, s) == "t" \o ToString(p) \o ToString(s)

Tweet(kind, p, s) ==
    [ID |-> IF kind.hasID THEN Ptr(TweetIDAt(p, s)) ELSE Nil,
     CreatedAt |-> kind.createdAt]

\* page number p of a listing of old tweets only, n of them on the page
LongPage(n, p) == [s \in 1..n |-> Tweet(OldTweet, p, s)]

\* the contents page number p of the listing can have: up to room tweets
PageData(kinds, p, room) ==
    { [s \in 1..Len(sh) |-> Tweet(sh[s], p, s)] : sh \in SeqsUpTo(kinds, room) }

\* the number of tweets on the pages fetched so far
RECURSIVE NTweets(_)
NTweets(ps) == IF ps = <<>> THEN 0 ELSE Len(Head(ps).Data) + NTweets(Tail(ps))

\* the number of requests so far that ended in a transient error
NTransient == Cardinality({k \in 1..Len(calls) : calls[k].retried})

----------------------------------------------------------------------------
(* The program *)

Call(op, arg, retried) == [op |-> op, arg |-> arg, retried |-> retried]

\* the process ends: os.Exit, log.Fatal or a panic
Exit(code, where) ==
    /\ pc' = "exit"
    /\ exit' = <<code, where>>

NoOpts == [username |-> "", days |-> 0, timeout |-> 0,
           oauthToken |-> "", oauthTokenSecret |-> ""]

InitOver(argvs) ==
    /\ pc = "getOpts"
    /\ argv \in argvs
    /\ env \in Envs
    /\ opts = NoOpts
    /\ now = StartTime
    /\ userID = ""
    /\ ids = <<>>
    /\ token = ""
    /\ i = 0
    /\ j = 0
    /\ exit = <<>>
    /\ calls = <<>>
    /\ pages = <<>>
    /\ lastErr = NoError
    /\ slept = 0
    /\ progress = <<>>
    /\ unliked = 0

\* command lines with -u and the default days, or without -u and -d 0
Init ==
    InitOver(Argvs(Usernames \ {""}, {-1}, {DefaultTimeout})
                 \cup Argvs({""}, {0}, {DefaultTimeout}))

\* (the default taken for 0 as well)
GetOptsDaysNonPositive(d) == IF d <= 0 THEN DefaultDays ELSE d

\* main.go:66-68: the days getOpts returns
GetOptsDays(d) == IF d < 0 THEN DefaultDays ELSE d

\* (only both credentials missing counts)
CredsBothMissing(o) == o.oauthToken = "" /\ o.oauthTokenSecret = ""

\* main.go:60: a credential is missing
CredsMissing(o) == o.oauthToken = "" \/ o.oauthTokenSecret = ""

\* getOpts, main.go:46-70

GetOpts ==
    /\ pc = "getOpts"
    /\ UNCHANGED <<argv, now, userID, ids, token, i, j, calls, pages,
                   lastErr, slept, progress, unliked>>
    /\ LET o == [username |-> argv.u, days |-> argv.d, timeout |-> argv.t,
                 oauthToken |-> env.token, oauthTokenSecret |-> env.secret]
       IN  IF argv.parse = "help" THEN
               /\ Exit(ExitSuccess, "help")
               /\ UNCHANGED <<env, opts>>
           ELSE IF argv.parse = "error" THEN
               /\ Exit(ExitUsage, "flag")
               /\ UNCHANGED <<env, opts>>
           ELSE IF argv.V THEN
               /\ Exit(ExitSuccess, "version")
               /\ UNCHANGED <<env, opts>>
           ELSE IF CredsMissing(o) THEN
               /\ Exit(ExitUsage, "usage")
               /\ UNCHANGED <<env, opts>>
           ELSE
               /\ env' = [token |-> "", secret |-> ""]
               /\ opts' = [o EXCEPT !.days = GetOptsDays(o.days)]
               /\ pc' = "NewTwitter"
               /\ UNCHANGED exit

\* NewTwitter, main.go:76-87, and main's fatalOnError on its result
NewTwitter ==
    /\ pc = "NewTwitter"
    /\ UNCHANGED <<argv, env, opts, now, userID, ids, token, i, j, calls,
                   pages, lastErr, slept, progress, unliked>>
    /\ \E failed \in BOOLEAN :
         IF failed THEN Exit(ExitFatal, "NewTwitter")
         ELSE pc' = "LookupUser" /\ UNCHANGED exit

\* (the lookup by username whatever the username)
LookupOpByUsername(username) == "UserLookupByUsername"

\* main.go:236-240: which lookup main calls
LookupOp(username) ==
    IF username # "" THEN "UserLookupByUsername" ELSE "UserLookupMe"

\* main.go:235-246: resolve the user
LookupUser ==
    /\ pc = "LookupUser"
    /\ UNCHANGED <<argv, env, opts, now, ids, token, i, j, pages, lastErr,
                   slept, progress, unliked>>
    /\ calls' = Append(calls, Call(LookupOp(opts.username), opts.username, FALSE))
    /\ \/ \E err \in Errors :
            /\ Exit(ExitFatal, "LookupUser")
            /\ UNCHANGED userID
       \/ \E id \in UserIDs :
            /\ userID' = StringValue(id)
            /\ IF userID' = "" THEN Exit(ExitPanic, "panic")
               ELSE pc' = "Collect" /\ UNCHANGED exit

\* (every error retried)
trySleepOnAnyError(err) ==
    IF err.timeout THEN [rv |-> TRUE, sleep |-> DefaultTimeout]
    ELSE [rv |-> TRUE, sleep |-> RateLimitSleep]

\* (no error retried)
trySleepNever(err) == [rv |-> FALSE, sleep |-> 0]

\* (the rate limit looked at before the timeout)
trySleepRateLimitFirst(err) ==
    IF err.has429 THEN [rv |-> TRUE, sleep |-> RateLimitSleep]
    ELSE IF err.timeout THEN [rv |-> TRUE, sleep |-> DefaultTimeout]
    ELSE [rv |-> FALSE, sleep |-> 0]

\* (the rate limit not retried)
trySleepTimeoutOnly(err) ==
    IF err.timeout THEN [rv |-> TRUE, sleep |-> DefaultTimeout]
    ELSE [rv |-> FALSE, sleep |-> 0]

\* (the timeout not retried)
trySleepTimeoutFatal(err) ==
    IF err.timeout THEN [rv |-> FALSE, sleep |-> 0]
    ELSE IF err.has429 THEN [rv |-> TRUE, sleep |-> RateLimitSleep]
    ELSE [rv |-> FALSE, sleep |-> 0]

\* (the rate limit waited out like a timeout)
trySleepRateLimitShort(err) ==
    IF err.timeout \/ err.has429 THEN [rv |-> TRUE, sleep |-> DefaultTimeout]
    ELSE [rv |-> FALSE, sleep |-> 0]

\* trySleepOnError, main.go:210-222: whether to retry, and the sleep before it
trySleepOnError(err) ==
    IF err.timeout THEN [rv |-> TRUE, sleep |-> DefaultTimeout]
    ELSE IF err.has429 THEN [rv |-> TRUE, sleep |-> RateLimitSleep]
    ELSE [rv |-> FALSE, sleep |-> 0]

\* main.go:169: the tweet is too recent
TooRecent(tweet, point) == After(TimeValue(tweet.CreatedAt), point)

\* (a tweet without ID passed over)
RECURSIVE CollectPageSkipEmpty(_, _, _)
CollectPageSkipEmpty(data, point, ids0) ==
    IF data = <<>> THEN [ids |-> ids0, panic |-> FALSE]
    ELSE IF TooRecent(Head(data), point) \/ StringValue(Head(data).ID) = "" THEN
        CollectPageSkipEmpty(Tail(data), point, ids0)
    ELSE CollectPageSkipEmpty(Tail(data), point,
                              Append(ids0, StringValue(Head(data).ID)))

\* main.go:168-177: the loop over the tweets of a page, from ids0
RECURSIVE CollectPage(_, _, _)
CollectPage(data, point, ids0) ==
    IF data = <<>> THEN [ids |-> ids0, panic |-> FALSE]
    ELSE IF TooRecent(Head(data), point) THEN
        CollectPage(Tail(data), point, ids0)
    ELSE IF StringValue(Head(data).ID) = "" THEN
        [ids |-> ids0, panic |-> TRUE]
    ELSE CollectPage(Tail(data), point, Append(ids0, StringValue(Head(data).ID)))

\* (the cutoff taken once, when the run starts)
PointAtStart(t, days) == AddDate(StartTime, -days)

\* main.go:167: the cutoff
Point(t, days) == AddDate(t, -days)

TokenOf(p) == "p" \o ToString(p)

\* (the listing left after any page)
LastPageAlways(tok) == TRUE

\* main.go:179-181: the page that ends the listing
LastPage(tok) == tok = ""

\* the sleep of a retry: the clock moves on
Sleep(err) ==
    /\ NTransient < MaxRetries
    /\ now' = now + trySleepOnError(err).sleep
    /\ slept' = trySleepOnError(err).sleep
    /\ lastErr' = Ptr(err)

\* CollectLikedTweetsID, main.go:159-182: one turn of the loop, the server
\* answering with an error or with a page out of datas and a cursor out of
\* nexts
CollectPages(datas, nexts) ==
    /\ pc = "Collect"
    /\ UNCHANGED <<argv, env, opts, userID, i, j, progress, unliked>>
    /\ \/ \E err \in Errors :
            IF trySleepOnError(err).rv THEN
                /\ Sleep(err)
                /\ calls' = Append(calls, Call("LikedTweets", token, TRUE))
                /\ UNCHANGED <<pc, exit, ids, token, pages>>
            ELSE
                /\ calls' = Append(calls, Call("LikedTweets", token, FALSE))
                /\ lastErr' = Ptr(err)
                /\ slept' = 0
                /\ ids' = <<>>
                /\ Exit(ExitFatal, "Collect")
                /\ UNCHANGED <<now, token, pages>>
       \/ \E data \in datas, next \in nexts :
            LET point == Point(now, opts.days)
                r == CollectPage(data, point, ids)
            IN  /\ calls' = Append(calls, Call("LikedTweets", token, FALSE))
                /\ pages' = Append(pages, [Data |-> data, NextToken |-> next,
                                           at |-> now, point |-> point])
                /\ lastErr' = NoError
                /\ slept' = 0
                /\ ids' = r.ids
                /\ UNCHANGED now
                /\ IF r.panic THEN
                       /\ Exit(ExitPanic, "panic")
                       /\ UNCHANGED token
                   ELSE
                       /\ token' = StringValue(next)
                       /\ pc' = IF LastPage(token') THEN "collected" ELSE "Collect"
                       /\ UNCHANGED exit

\* the cursors the listing can give with a page: none on the last page
NextTokens ==
    {Nil} \cup {Ptr(TokenOf(Len(pages) + 2)) : x \in
                   IF Len(pages) + 1 < MaxPages THEN {1} ELSE {}}

\* the server listing tweets of the given kinds
CollectOver(kinds) ==
    CollectPages(PageData(kinds, Len(pages) + 1, MaxTweets - NTweets(pages)),
                 NextTokens)

Collect == CollectOver(TweetKinds)

\* (a test no list passes)
NothingToDoNever(idsq) == Len(idsq) < 0

\* main.go:250: there is nothing to unlike
NothingToDo(idsq) == Len(idsq) = 0

\* main.go:249-254: what main does with the collected ids
AfterCollect ==
    /\ pc = "collected"
    /\ UNCHANGED <<argv, env, opts, now, userID, ids, token, calls, pages,
                   lastErr, slept, progress, unliked>>
    /\ IF NothingToDo(ids) THEN
           /\ Exit(ExitSuccess, "nothing")
           /\ UNCHANGED <<i, j>>
       ELSE
           /\ pc' = "Delete"
           /\ i' = 0
           /\ j' = 0
           /\ UNCHANGED exit

\* (the response's flag ignored)
UnlikeAlways(liked) == TRUE

\* Unlike, main.go:134-147: the result for a response saying liked
Unlike(liked) == ~liked

\* (the line logged one turn late)
ProgressLate(log, jj, ii, n) ==
    IF ii % ProgressEvery = 1 THEN Append(log, <<jj, ii, n>>) ELSE log

\* (the line logged at every turn from the first multiple on)
ProgressFrom(log, jj, ii, n) ==
    IF ii >= ProgressEvery THEN Append(log, <<jj, ii, n>>) ELSE log

\* main.go:203-205: the progress line
Progress(log, jj, ii, n) ==
    IF ii % ProgressEvery = 0 THEN Append(log, <<jj, ii, n>>) ELSE log

\* (the index taken one too low)
NextIDOffByOne(idsq, ii) == idsq[IF ii = 0 THEN 1 ELSE ii]

\* (the head of the list whatever the index)
NextIDFirst(idsq, ii) == idsq[1]

\* (an index counted from the end of the list)
NextIDFromEnd(idsq, ii) == idsq[Len(idsq) - ii]

\* main.go:190: the ID DeleteLikes takes at index ii
NextID(idsq, ii) == idsq[ii + 1]

\* DeleteLikes, main.go:189-206: one turn of the loop, the server failing
\* (with an error, or by leaving the tweet liked) only for the tweets in flaky
DeleteOver(flaky) ==
    /\ pc = "Delete"
    /\ i < Len(ids)
    /\ UNCHANGED <<argv, env, opts, userID, ids, token, pages, pc, exit>>
    /\ LET id == NextID(ids, i)
       IN  \/ \E err \in Errors :
                 /\ id \in flaky
                 /\ IF trySleepOnError(err).rv THEN
                        /\ Sleep(err)
                        /\ calls' = Append(calls, Call("Unlike", id, TRUE))
                        /\ UNCHANGED <<i, j, progress, unliked>>
                    ELSE
                        /\ calls' = Append(calls, Call("Unlike", id, FALSE))
                        /\ lastErr' = Ptr(err)
                        /\ slept' = 0
                        /\ i' = i + 1
                        /\ progress' = Progress(progress, j, i', Len(ids))
                        /\ UNCHANGED <<now, j, unliked>>
           \/ \E liked \in BOOLEAN :
                 /\ liked => id \in flaky
                 /\ calls' = Append(calls, Call("Unlike", id, FALSE))
                 /\ lastErr' = NoError
                 /\ slept' = 0
                 /\ unliked' = IF liked THEN unliked ELSE unliked + 1
                 /\ j' = IF Unlike(liked) THEN j + 1 ELSE j
                 /\ i' = i + 1
                 /\ progress' = Progress(progress, j', i', Len(ids))
                 /\ UNCHANGED now

\* every tweet of the list may fail
Delete == DeleteOver({ids[k] : k \in 1..Len(ids)})

\* (the last error handed back)
DeleteLikesLastErr(err) == err

\* main.go:207: what DeleteLikes returns, err being the last error it saw
DeleteLikesResult(err) == NoError

\* DeleteLikes returns (main.go:207) and main ends (main.go:255-257)
DeleteReturn ==
    /\ pc = "Delete"
    /\ ~(i < Len(ids))
    /\ IF DeleteLikesResult(lastErr) # NoError THEN
           /\ Exit(ExitFatal, "DeleteLikes")
           /\ UNCHANGED progress
       ELSE
           /\ Exit(ExitSuccess, "done")
           /\ progress' = Append(progress, <<"done">>)
    /\ UNCHANGED <<argv, env, opts, now, userID, ids, token, i, j, calls,
                   pages, lastErr, slept, unliked>>

Next ==
    \/ GetOpts
    \/ NewTwitter
    \/ LookupUser
    \/ Collect
    \/ AfterCollect
    \/ Delete
    \/ DeleteReturn

Spec == Init /\ [][Next]_vars

\* The run up to the return of CollectLikedTweetsID, over more command lines
\* and more kinds of tweets.
InitCollect ==
    InitOver(Argvs({""}, {-2, -1, 0, 1, DefaultDays}, {DefaultTimeout})
                 \cup Argvs({""}, {0}, {10}))

CollectAll == CollectOver(AllTweetKinds)

NextCollect ==
    \/ GetOpts
    \/ NewTwitter
    \/ LookupUser
    \/ CollectAll

SpecCollect == InitCollect /\ [][NextCollect]_vars

TypeOK ==
    /\ pc \in {"getOpts", "NewTwitter", "LookupUser", "Collect", "collected",
               "Delete", "exit"}
    /\ (pc = "exit") = (exit # <<>>)
    /\ i \in 0..Len(ids)
    /\ j \in 0..i

\* The run over lists long enough for the progress lines: the listing has
\* up to LongPages pages of LongLen old tweets each, and the server fails only
\* for the tweets about the places where a line is due.
LongLen == ProgressEvery \div 4
LongPages == (2 * ProgressEvery) \div LongLen

InitLong == InitOver(Argvs({""}, {DefaultDays}, {DefaultTimeout}))

CollectLong ==
    CollectPages({LongPage(LongLen, Len(pages) + 1)},
                 {Nil} \cup {Ptr(TokenOf(Len(pages) + 2)) : x \in
                                IF Len(pages) + 1 < LongPages THEN {1} ELSE {}})

FlakyPlaces == {ProgressEvery, ProgressEvery + 1, 2 * ProgressEvery}

DeleteLong == DeleteOver({ids[k] : k \in FlakyPlaces \cap (1..Len(ids))})

NextLong ==
    \/ GetOpts
    \/ NewTwitter
    \/ LookupUser
    \/ CollectLong
    \/ AfterCollect
    \/ DeleteLong
    \/ DeleteReturn

SpecLong == InitLong /\ [][NextLong]_vars

\* The whole run of a process that keeps running, over listings of old tweets
\* only.  The server gives at most MaxRetries transient errors in a run and at
\* most MaxPages pages: every call ends up with an outcome that is not
\* transient, and the listing with an empty cursor.
InitLive == InitOver(Argvs({""}, {DefaultDays}, {DefaultTimeout}))

CollectOld == CollectOver({OldTweet})

NextLive ==
    \/ GetOpts
    \/ NewTwitter
    \/ LookupUser
    \/ CollectOld
    \/ AfterCollect
    \/ Delete
    \/ DeleteReturn

SpecLive == InitLive /\ [][NextLive]_vars /\ WF_vars(NextLive)

----------------------------------------------------------------------------
(* Notions the properties are stated in *)

\* when a tweet was created: the zero time when the listing gives none
Created(tw) == IF tw.CreatedAt = Nil THEN ZeroTime ELSE tw.CreatedAt[1]

\* the instant "now - days" for a page: days days before the page was fetched
Cutoff(pg, days) == pg.at - days * Day

\* the tweets of a page created at or before its cutoff, in listing order
EligibleOn(pg, days) ==
    SelectSeq(pg.Data, LAMBDA tw : Created(tw) <= Cutoff(pg, days))

IDsOf(tws) == [k \in 1..Len(tws) |-> IF tws[k].ID = Nil THEN "" ELSE tws[k].ID[1]]

\* the IDs of the eligible tweets of page 1, then of page 2, and so on
RECURSIVE ExpectedIDs(_, _)
ExpectedIDs(ps, days) ==
    IF ps = <<>> THEN <<>>
    ELSE IDsOf(EligibleOn(Head(ps), days)) \o ExpectedIDs(Tail(ps), days)

CallsOf(ops) == SelectSeq(calls, LAMBDA c : c.op \in ops)
ArgsOf(cs) == [k \in 1..Len(cs) |-> cs[k].arg]

\* the delete-like calls that were not repeated by a retry
FinalUnlikes == SelectSeq(calls, LAMBDA c : c.op = "Unlike" /\ ~c.retried)

Exited == pc = "exit"
ExitCode == exit[1]

----------------------------------------------------------------------------
(* Properties *)

\* C1: while CollectLikedTweetsID runs and when it returns, its list holds
\* exactly the tweets of the pages fetched so far that were created at or
\* before "now - days" (now: when the page was fetched), and no tweet created
\* strictly after that instant, whatever transient errors came in between.
C1_CollectedIffNotAfterCutoff ==
    pc \in {"Collect", "collected"} => ids = ExpectedIDs(pages, opts.days)

\* C1 happens: a collection over two pages returned after a transient error,
\* having taken a tweet created exactly at the cutoff and skipped a later one
C1_Witness ==
    /\ pc = "collected"
    /\ Len(pages) = 2
    /\ NTransient >= 1
    /\ \E p \in 1..Len(pages) : \E s \in 1..Len(pages[p].Data) :
         /\ Created(pages[p].Data[s]) = Cutoff(pages[p], opts.days)
         /\ \E k \in 1..Len(ids) : ids[k] = TweetIDAt(p, s)
    /\ \E p \in 1..Len(pages) : \E s \in 1..Len(pages[p].Data) :
         /\ Created(pages[p].Data[s]) > Cutoff(pages[p], opts.days)
         /\ \A k \in 1..Len(ids) : ids[k] # TweetIDAt(p, s)

\* C2: in a complete run the IDs delete-like is called for, retries left
\* out, are the collected list: the eligible tweets of page 1 in listing
\* order, then those of page 2, and so on.
C2_DeletesInCollectedOrder ==
    exit = <<ExitSuccess, "done">> =>
        /\ ArgsOf(FinalUnlikes) = ids
        /\ ArgsOf(FinalUnlikes) = ExpectedIDs(pages, opts.days)

\* C2 happens: a complete run over two pages that both gave tweets to
\* unlike, with a delete-like call repeated after a transient error
C2_Witness ==
    /\ exit = <<ExitSuccess, "done">>
    /\ Len(pages) = 2
    /\ EligibleOn(pages[1], opts.days) # <<>>
    /\ EligibleOn(pages[2], opts.days) # <<>>
    /\ Len(ids) >= 3
    /\ \E k \in 1..Len(calls) : calls[k].op = "Unlike" /\ calls[k].retried

\* a credential was missing when the process started: the environment lacks
\* one and getOpts took none
MissingCreds ==
    /\ env.token = "" \/ env.secret = ""
    /\ opts.oauthToken = "" \/ opts.oauthTokenSecret = ""

NoCallOf(ops) == \A k \in 1..Len(calls) : calls[k].op \notin ops

\* the command line makes getOpts leave before it looks at the credentials
LeavesEarly == argv.parse = "help" \/ (argv.parse = "ok" /\ argv.V)

\* C3 as claimed: a missing OAuth token or secret always ends in exit code 2
\* with no network call, whatever the other flags are.
C3_Orig_MissingCredsExit2 ==
    MissingCreds =>
        /\ calls = <<>>
        /\ pc \in {"getOpts", "exit"}
        /\ Exited => ExitCode = ExitUsage

\* C3: with a missing OAuth token or secret no network call is made and the
\* process exits with code 2, unless -V (or -h) is given: then it exits with
\* code 0 before the credentials are looked at.
C3_MissingCredsNoCall ==
    MissingCreds =>
        /\ calls = <<>>
        /\ pc \in {"getOpts", "exit"}
        /\ Exited => ExitCode = IF LeavesEarly THEN ExitSuccess ELSE ExitUsage

\* C3 happens: the token is there, the secret is not, and the process exited 2
C3_Witness ==
    /\ exit = <<ExitUsage, "usage">>
    /\ env.token # ""
    /\ env.secret = ""
    /\ calls = <<>>

NonTransient(e) == ~e.timeout /\ ~e.has429

\* the last request was a listing of liked tweets that failed for good
FatalListError ==
    /\ calls # <<>>
    /\ calls[Len(calls)].op = "LikedTweets"
    /\ lastErr # NoError
    /\ NonTransient(lastErr[1])

\* C4: a non-transient error of the list call, on any page, ends the process
\* with a non-zero status, with no ID list left and no delete-like call.
C4_FatalListErrorAborts ==
    FatalListError =>
        /\ Exited
        /\ ExitCode # ExitSuccess
        /\ ids = <<>>
        /\ NoCallOf({"Unlike"})

\* C4 happens: the list call failed for good on the second page, after the
\* first page had given tweets to unlike
C4_Witness ==
    /\ FatalListError
    /\ Len(pages) = 1
    /\ EligibleOn(pages[1], opts.days) # <<>>
    /\ Exited

\* C5 as claimed: the process ends abnormally only on a usage error, a
\* startup error or an empty identifier.
C5_Orig_AbnormalExits ==
    (Exited /\ ExitCode # ExitSuccess) =>
        exit[2] \in {"usage", "flag", "NewTwitter", "LookupUser", "panic"}

\* C5: the process ends abnormally only on a usage error, a startup error,
\* an empty identifier, or a non-transient error of the list call; every
\* other error of a list or delete call is absorbed and the run goes on.
C5_AbnormalExits ==
    /\ (Exited /\ ExitCode # ExitSuccess) =>
          \/ exit[2] \in {"usage", "flag", "NewTwitter", "LookupUser", "panic"}
          \/ exit[2] = "Collect" /\ FatalListError
    /\ (lastErr # NoError /\ ~FatalListError) =>
          \/ pc \in {"Collect", "Delete"}
          \/ exit = <<ExitSuccess, "done">>

\* C5 happens: a delete-like call failed for good and the run goes on
C5_Witness ==
    /\ pc = "Delete"
    /\ lastErr # NoError
    /\ NonTransient(lastErr[1])
    /\ i >= 1
    /\ i < Len(ids)

\* C6: a run that reached DeleteLikes ends with every index processed and
\* exit status 0, whatever the delete-like calls returned.
C6_DeleteLikesSucceeds ==
    (Exited /\ ~NoCallOf({"Unlike"})) =>
        /\ exit = <<ExitSuccess, "done">>
        /\ i = Len(ids)

\* C6 happens: every item failed, the last one with a non-transient error,
\* and the run still ended with status 0
C6_Witness ==
    /\ exit = <<ExitSuccess, "done">>
    /\ Len(ids) >= 2
    /\ j = 0
    /\ lastErr # NoError

\* the listing ended and none of its tweets was eligible
ReturnedNothing ==
    /\ pages # <<>>
    /\ pages[Len(pages)].NextToken = Nil
    /\ ExpectedIDs(pages, opts.days) = <<>>

\* C7: when the collection returns no ID, no delete-like call is made and
\* the process exits with status 0.
C7_NothingToUnlike ==
    ReturnedNothing =>
        /\ ids = <<>>
        /\ NoCallOf({"Unlike"})
        /\ pc \in {"collected", "exit"}
        /\ Exited => ExitCode = ExitSuccess

\* C7 happens: two tweets were listed, both too recent, and the process
\* exited with status 0
C7_Witness ==
    /\ exit = <<ExitSuccess, "nothing">>
    /\ NTweets(pages) >= 2
    /\ NoCallOf({"Unlike"})

\* the threshold the claim gives for a configured days value
EffectiveDays(d) == IF d < 0 THEN DefaultDays ELSE d

\* C8: the threshold the collection uses is 30 for every configured days
\* below 0 and the configured days otherwise.
C8_EffectiveDays ==
    /\ opts # NoOpts => opts.days = EffectiveDays(argv.d)
    /\ \A p \in 1..Len(pages) :
         pages[p].point = pages[p].at - EffectiveDays(argv.d) * Day

\* C8 happens: a page was filtered in a run configured with -d -2
C8_Witness ==
    /\ argv.d = -2
    /\ Len(pages) >= 1
    /\ pages[1].point = pages[1].at - DefaultDays * Day

Lookups == CallsOf({"UserLookupByUsername", "UserLookupMe"})

\* C9: a run that gets to the user resolution makes exactly one such call,
\* by username when a username is configured and of the current user
\* otherwise; with an empty user ID the run ends there, abnormally.
C9_OneUserLookup ==
    /\ Len(Lookups) <= 1
    /\ (calls # <<>> \/ pc \in {"Collect", "collected", "Delete"}) =>
          /\ Len(Lookups) = 1
          /\ calls[1].op = IF argv.u # "" THEN "UserLookupByUsername"
                           ELSE "UserLookupMe"
          /\ calls[1].arg = argv.u
    /\ (calls # <<>> /\ userID = "") =>
          /\ Exited
          /\ ExitCode # ExitSuccess
          /\ Len(calls) = 1

\* C9 happens: no username configured, the current user looked up, the ID
\* came back empty and the run ended before any list call
C9_Witness ==
    /\ exit = <<ExitPanic, "panic">>
    /\ argv.u = ""
    /\ calls = <<Call("UserLookupMe", "", FALSE)>>
    /\ userID = ""

TimedOut == lastErr # NoError /\ lastErr[1].timeout

\* C10 as claimed: on a timeout the retry policy sleeps for the configured
\* request timeout.
C10_Orig_SleepsConfiguredTimeout ==
    TimedOut => slept = opts.timeout

\* C10: on a timeout the retry policy sleeps 30 seconds, whatever the
\* configured request timeout is, and the same request is sent again.
C10_SleepsDefaultTimeout ==
    TimedOut =>
        /\ slept = DefaultTimeout
        /\ ~Exited
        /\ calls[Len(calls)].arg = token

\* C10 happens: a request timed out in a run configured with -t 10s
C10_Witness ==
    /\ TimedOut
    /\ opts.timeout = 10
    /\ slept = DefaultTimeout

\* the list calls that were not repeated by a retry
FinalLists == SelectSeq(calls, LAMBDA c : c.op = "LikedTweets" /\ ~c.retried)

\* the cursor a page hands on: empty when the page gives none
CursorAfter(pg) == IF pg.NextToken = Nil THEN "" ELSE pg.NextToken[1]

\* the cursor page number k is asked with
CursorOf(k) == IF k = 1 THEN "" ELSE CursorAfter(pages[k - 1])

Transient(e) == e.timeout \/ e.has429

NoDuplicates(sq) == \A a, b \in 1..Len(sq) : sq[a] = sq[b] => a = b

\* C11: the collection asks for each page once with the cursor of the page
\* before it and stops at the first empty cursor; a transient error leaves
\* the cursor and the list as they were and the same page is asked again,
\* so the list holds each page's eligible tweets exactly once.
C11_CursorsFollowed ==
    /\ (lastErr # NoError /\ Transient(lastErr[1])
           /\ calls[Len(calls)].op = "LikedTweets") => pc = "Collect"
    /\ pc \in {"Collect", "collected"} =>
          /\ LET lists == FinalLists
             IN  /\ Len(lists) = Len(pages)
                 /\ \A k \in 1..Len(pages) : lists[k].arg = CursorOf(k)
          /\ token = CursorOf(Len(pages) + 1)
          /\ \A k \in 1..Len(calls) :
               (calls[k].op = "LikedTweets" /\ calls[k].retried) =>
                  calls[k].arg = IF k < Len(calls) THEN calls[k + 1].arg ELSE token
          /\ (pc = "collected") = (pages # <<>> /\ CursorAfter(pages[Len(pages)]) = "")
          /\ ids = ExpectedIDs(pages, opts.days)
          /\ NoDuplicates(ids)

\* C11 happens: the second of two pages was asked twice, a transient error
\* in between, and both pages gave tweets to the list
C11_Witness ==
    /\ pc = "collected"
    /\ Len(pages) = 2
    /\ EligibleOn(pages[1], opts.days) # <<>>
    /\ EligibleOn(pages[2], opts.days) # <<>>
    /\ \E k \in 1..Len(calls) :
         calls[k] = Call("LikedTweets", CursorOf(2), TRUE)

EmptyID(tw) == tw.ID = Nil \/ tw.ID = Ptr("")

\* C12 as claimed: a page holding a tweet with an empty ID always ends the
\* process with the panic, whatever the tweet's creation time.
C12_Orig_EmptyIDAlwaysAborts ==
    (\E p \in 1..Len(pages) : \E s \in 1..Len(pages[p].Data) :
        EmptyID(pages[p].Data[s])) => exit = <<ExitPanic, "panic">>

\* C12: a tweet with an empty ID that is created at or before the cutoff of
\* its page ends the process with the panic on that page, no list returned
\* and no delete issued; one created after the cutoff is skipped like any
\* tweet that is too recent.  The list never holds an empty ID.
C12_EligibleEmptyIDAborts ==
    /\ \A p \in 1..Len(pages) : \A s \in 1..Len(pages[p].Data) :
         (EmptyID(pages[p].Data[s])
             /\ Created(pages[p].Data[s]) <= Cutoff(pages[p], opts.days)) =>
            /\ exit = <<ExitPanic, "panic">>
            /\ p = Len(pages)
            /\ NoCallOf({"Unlike"})
    /\ \A k \in 1..Len(ids) : ids[k] # ""

\* C12 happens: the second page held an eligible tweet with no ID and the
\* process ended there, after a too recent tweet with no ID was skipped
C12_Witness ==
    /\ exit = <<ExitPanic, "panic">>
    /\ Len(pages) = 2
    /\ \E s \in 1..Len(pages[1].Data) :
         /\ EmptyID(pages[1].Data[s])
         /\ Created(pages[1].Data[s]) > Cutoff(pages[1], opts.days)
    /\ \E s \in 1..Len(pages[2].Data) :
         /\ EmptyID(pages[2].Data[s])
         /\ Created(pages[2].Data[s]) <= Cutoff(pages[2], opts.days)
\* the delete-like calls, retried ones included
Unlikes == CallsOf({"Unlike"})

\* the run is in DeleteLikes or has come out of it
InOrAfterDelete == pc = "Delete" \/ (Exited /\ exit[2] \in {"done", "DeleteLikes"})

\* the last response was an error of the kind DeleteLikes does not retry
FatalItemError == lastErr # NoError /\ NonTransient(lastErr[1])

\* C13: DeleteLikes takes the indices 0, 1, 2, ... in this order: each
\* delete-like call is for the ID at the current index, an error that is not
\* retried or a response that leaves the tweet liked moves the index on by one
\* without ending the loop, and the loop is left only with every index done.
C13_DeleterVisitsInOrder ==
    /\ [][(pc = "Delete" /\ calls' # calls) =>
            LET c == calls'[Len(calls')]
            IN  /\ Len(calls') = Len(calls) + 1
                /\ c.op = "Unlike"
                /\ c.arg = ids[i + 1]
                /\ i' \in {i, i + 1}
                /\ (FatalItemError' \/ (lastErr' = NoError /\ unliked' = unliked)) =>
                       /\ i' = i + 1
                       /\ pc' = "Delete"
                       /\ ids' = ids]_vars
    /\ [](InOrAfterDelete =>
            /\ ArgsOf(FinalUnlikes) = SubSeq(ids, 1, i)
            /\ Exited => i = Len(ids))

\* C13 happens: the loop goes on after an error that is not retried at the
\* second index, an earlier index having failed as well
C13_Witness ==
    /\ pc = "Delete"
    /\ FatalItemError
    /\ i = 2
    /\ j = 0
    /\ i < Len(ids)
    /\ ArgsOf(FinalUnlikes) = SubSeq(ids, 1, 2)

\* the delete-like calls made for the ID x
UnlikesOf(x) == SelectSeq(calls, LAMBDA c : c.op = "Unlike" /\ c.arg = x)

\* C14: in DeleteLikes a timeout or rate-limit error leaves the index where
\* it is and the same ID is called again: every index done has had exactly
\* one call that was not retried, the calls made for it are that one plus one
\* per transient error, and a retried call is always followed by a call for
\* the same ID.
C14_TransientKeepsIndex ==
    InOrAfterDelete =>
        /\ \A k \in 1..Len(ids) :
              LET cs == UnlikesOf(ids[k])
                  final == SelectSeq(cs, LAMBDA c : ~c.retried)
                  again == SelectSeq(cs, LAMBDA c : c.retried)
              IN  /\ Len(final) = IF k <= i THEN 1 ELSE 0
                  /\ Len(cs) = Len(final) + Len(again)
                  /\ again # <<>> => k <= i + 1
                  /\ (k <= i /\ cs # <<>>) => ~cs[Len(cs)].retried
        /\ \A n \in 1..Len(calls) : (calls[n].op = "Unlike" /\ calls[n].retried) =>
              IF n < Len(calls) THEN calls[n + 1].arg = calls[n].arg
              ELSE i < Len(ids) /\ calls[n].arg = ids[i + 1] /\ pc = "Delete"
        /\ (lastErr # NoError /\ Transient(lastErr[1])) =>
              /\ calls[Len(calls)].retried
              /\ calls[Len(calls)].op = "Unlike" => calls[Len(calls)].arg = ids[i + 1]

\* C14 happens: the first delete-like call timed out, the second, for the
\* same ID, went through, and the tweet counts as unliked
C14_Witness ==
    /\ pc = "Delete"
    /\ i = 1
    /\ j = 1
    /\ now = StartTime + DefaultTimeout
    /\ Len(Unlikes) = 2
    /\ Unlikes[1] = Call("Unlike", ids[1], TRUE)
    /\ Unlikes[2] = Call("Unlike", ids[1], FALSE)
    /\ lastErr = NoError

\* C15: every error of a list or delete-like call gets one of three
\* treatments: a timeout is slept on and retried; an error that is no timeout
\* but a rate limit is slept on for 15 minutes and retried; any other error is
\* neither slept on nor retried. So a call is retried exactly when its error
\* is a timeout or a rate limit.
C15_RetryPolicy ==
    lastErr # NoError =>
        LET e == lastErr[1]
            c == calls[Len(calls)]
        IN  /\ c.op \in {"LikedTweets", "Unlike"}
            /\ e.timeout => (c.retried /\ slept > 0)
            /\ (~e.timeout /\ e.has429) => (c.retried /\ slept = 15 * 60)
            /\ (~e.timeout /\ ~e.has429) => (~c.retried /\ slept = 0)
            /\ c.retried = (e.timeout \/ e.has429)

\* C15 happens: a delete-like call hit the rate limit and is being retried
\* after a sleep of 15 minutes
C15_Witness ==
    /\ pc = "Delete"
    /\ lastErr = Ptr([timeout |-> FALSE, has429 |-> TRUE])
    /\ slept = RateLimitSleep
    /\ now = StartTime + RateLimitSleep
    /\ calls[Len(calls)] = Call("Unlike", ids[i + 1], TRUE)

\* C16: all through DeleteLikes the success counter j is the number of
\* indices done whose delete-like call came back without error and with the
\* tweet no longer liked: a response leaving the tweet liked, an error, or a
\* retry never adds to it, and 0 <= j <= i <= len(ids).
C16_SuccessCounter ==
    InOrAfterDelete =>
        /\ j = unliked
        /\ 0 <= j
        /\ j <= i
        /\ i <= Len(ids)
        /\ unliked <= Len(FinalUnlikes)

\* C16 happens: three indices done, one of them unliked, one call retried
C16_Witness ==
    /\ pc = "Delete" \/ exit = <<ExitSuccess, "done">>
    /\ i = 3
    /\ j = 1
    /\ unliked = 1
    /\ Len(Unlikes) = 4

\* C18: the run has two phases: a delete-like call is made only once the
\* listing has given a page without cursor, no list call comes after a
\* delete-like call, and a complete run has made exactly one delete-like call
\* that was not retried for each ID collected.
C18_TwoPhases ==
    /\ \A n \in 1..(Len(calls) - 1) :
          calls[n].op = "Unlike" => calls[n + 1].op = "Unlike"
    /\ (calls # <<>> /\ calls[Len(calls)].op = "Unlike") =>
          /\ pages # <<>>
          /\ CursorAfter(pages[Len(pages)]) = ""
          /\ calls[Len(calls) - Len(Unlikes)] = Call("LikedTweets", CursorOf(Len(pages)), FALSE)
          /\ LET done == ArgsOf(FinalUnlikes)
             IN  /\ NoDuplicates(done)
                 /\ \A k \in 1..Len(done) : \E m \in 1..Len(ids) : ids[m] = done[k]
                 /\ exit = <<ExitSuccess, "done">> => Len(done) = Len(ids)

\* C18 happens: a complete run whose listing took two pages and a repeated
\* list call before the first delete-like call
C18_Witness ==
    /\ exit = <<ExitSuccess, "done">>
    /\ Len(pages) = 2
    /\ \E n \in 1..Len(calls) : calls[n].op = "LikedTweets" /\ calls[n].retried
    /\ Len(ids) >= 2
    /\ calls[Len(calls)].op = "Unlike"
\* the tweet was put in the list (the server gives each tweet its own ID)
Collected(tw) == tw.ID # Nil /\ \E k \in 1..Len(ids) : ids[k] = tw.ID[1]

\* C20: the cutoff is taken anew from the clock for each page fetched: it is
\* the time of the fetch less the days, one value for all the tweets of the
\* page, and it never goes back from a page to the next, sleeps of retries
\* included. So a tweet created at or before the cutoff of the first page is
\* collected on whichever page it comes, and a tweet is judged by the cutoff
\* of its own page.
C20_CutoffPerPage ==
    /\ \A p \in 1..Len(pages) :
          /\ pages[p].point = pages[p].at - opts.days * Day
          /\ pages[p].at >= StartTime
          /\ pages[p].at <= now
          /\ p > 1 => pages[p - 1].point <= pages[p].point
    /\ pc \in {"Collect", "collected"} =>
          \A p \in 1..Len(pages) : \A s \in 1..Len(pages[p].Data) :
             LET tw == pages[p].Data[s]
             IN  /\ Collected(tw) = (Created(tw) <= pages[p].point)
                 /\ Created(tw) <= pages[1].point => Collected(tw)

\* C20 happens: of two tweets created at the same instant the one on the
\* first page was too recent and the one on the second page, fetched after
\* the sleep of a retry, was collected
C20_Witness ==
    /\ pc \in {"Collect", "collected"}
    /\ Len(pages) = 2
    /\ pages[1].point < pages[2].point
    /\ \E s \in 1..Len(pages[1].Data) : \E r \in 1..Len(pages[2].Data) :
          /\ Created(pages[1].Data[s]) = Created(pages[2].Data[r])
          /\ ~Collected(pages[1].Data[s])
          /\ Collected(pages[2].Data[r])
\* the lines DeleteLikes logged: [j] i/len(ids)
ProgressLines == SelectSeq(progress, LAMBDA l : Len(l) = 3)

\* C17: DeleteLikes logs one line (unliked so far, indices done, length of the
\* list) each time the number of indices done gets to 100, 200, ...: one line
\* per multiple reached, retries at that count adding none; and when the run
\* is complete one more line is logged, main's "done".
C17_ProgressLines ==
    InOrAfterDelete =>
        /\ Len(ProgressLines) = i \div 100
        /\ \A k \in 1..Len(ProgressLines) :
              /\ ProgressLines[k][2] = 100 * k
              /\ ProgressLines[k][3] = Len(ids)
              /\ ProgressLines[k][1] \in 0..(100 * k)
              /\ ProgressLines[k][1] <= j
              /\ k > 1 => ProgressLines[k - 1][1] <= ProgressLines[k][1]
        /\ (i > 0 /\ i % 100 = 0) =>
              ProgressLines[Len(ProgressLines)] = <<j, i, Len(ids)>>
        /\ progress = IF exit = <<ExitSuccess, "done">>
                      THEN Append(ProgressLines, <<"done">>)
                      ELSE ProgressLines

\* C17 happens: a complete run over 200 tweets, with a call repeated when 100
\* indices were done and a tweet not unliked: two progress lines and "done"
C17_Witness ==
    /\ exit = <<ExitSuccess, "done">>
    /\ Len(ids) = 200
    /\ j < i
    /\ Len(progress) = 3
    /\ progress[1][2] = 100
    /\ progress[2] = <<j, 200, 200>>
    /\ calls[Len(calls)].arg = ids[200]
    /\ \E n \in 1..Len(calls) : calls[n] = Call("Unlike", ids[101], TRUE)
\* the last response was a timeout or rate-limit error
TransientError == lastErr # NoError /\ Transient(lastErr[1])

====
